---- MODULE Spec2Model ----
(***************************************************************************)
(* Model of the resource admission gate (services/resource_lock.py) and of *)
(* the content-image embedding pipeline                                    *)
(* (services/image_generation_service.py) of the VIPPlay content           *)
(* generator.                                                              *)
(*                                                                         *)
(* The gate is an asyncio object shared by the coroutines of one event     *)
(* loop: one task runs at a time, and it runs until it blocks (a semaphore *)
(* without permits, a cleared event, a held lock) or awaits inside the     *)
(* body the gate guards.  The steps of a run are kept apart (permit, lock, *)
(* counter update), so that the states in between are states of the model; *)
(* no other task takes a step in them.                                     *)
(***************************************************************************)
EXTENDS Integers, Sequences, FiniteSets, TLC

(* ----------------------------- bounds ---------------------------------- *)

\* Tasks that may call article_generation() / image_generation() (Spec).
NumPrimary == 3
NumSecondary == 2
\* The same, for the specification with fairness (FairSpec).
LiveNumPrimary == 3
LiveNumSecondary == 1

\* Lines of an article given to the embedder (EmbedSpec).
MaxLines == 5
\* Lines of an article given to the pipeline (PipeSpec).
PipeMaxLines == 2
\* The requested image_count ranges over -1..MaxImageCount (PipeSpec).
MaxImageCount == 3
\* Lines of a longer article given to the embedder (LongSpec).
MaxLongLines == 12
\* Lines of an answer of the oracle (ExtSpec).
MaxAnswerLines == 3

(* ------------------------- program constants --------------------------- *)

\* image_generation_service.py:236  image_count = min(image_count, 2)
MAX_IMAGES == 2

\* image_generation_service.py:531  range(i + 1, min(i + 10, len(lines)))
HEADING_WINDOW == 10

\* image_generation_service.py:560  max(total_lines // (n + 1), 10)
MIN_SPACING == 10

\* resource_lock.py:21  int(os.getenv("MAX_CONCURRENT_ARTICLES", "2"))
MAX_CONCURRENT_ARTICLES == 2

(* ------------------------------ tasks ---------------------------------- *)

\* Primary tasks are numbered 1..NumPrimary, secondary tasks 101..(100+n).
AllPrimaries == 1..NumPrimary
AllSecondaries == {100 + i : i \in 1..NumSecondary}

VARIABLES
    tasks,               \* the tasks taking part in this behaviour (constant)
    pc,                  \* pc[t]: where task t is in its context manager
    article_semaphore,   \* self._article_semaphore._value (free permits)
    article_generating,  \* self._article_generating.is_set() ("quiesced")
    active_articles,     \* self._active_articles
    active_articles_lock,\* self._active_articles_lock.locked()
    image_lock,          \* self._image_lock.locked()
    waiting_images,      \* self._waiting_images
    exitKind             \* history: how task t last left its body
                         \* ("none" from its next request on, "ok", "exc")

gateVars == <<tasks, pc, article_semaphore, article_generating, active_articles,
              active_articles_lock, image_lock, waiting_images, exitKind>>

VARIABLES
    stage,               \* where the pipeline call is
    article_content,     \* the article text, as its sequence of lines
    image_count,         \* the requested number of images
    prompts,             \* the extracted prompts, each named by its index
    jobs,                \* jobs[i]: the _generate_single_image call of prompt i
                         \* (with history: uploaded, and how the cleanup went)
    image_results,       \* the result dicts, in list order
    checked,             \* results the safety loop has gone through
    response,            \* the dict returned to the caller
    completed,           \* history: the prompts in the order their calls ended
    verdicts,            \* history: what check_image_safety answered, by index
    raised               \* history: the splicing code raised an exception

pipeVars == <<stage, article_content, image_count, prompts, jobs, image_results,
              checked, response, completed, verdicts, raised>>

VARIABLES
    ext_stage,           \* where the call of the prompt extractor is
    oracle_answer,       \* the text the oracle answers with, as its tokens
    requested,           \* image_count of the extractor: the prompts asked for
    ext_prompts,         \* prompts, the list the extractor collects
    oracle_calls,        \* history: calls of ollama_service.generate
    prompt_pass,         \* history: the pass that collected each prompt
    passes_run           \* history: the passes run, with the prompts each found

extVars == <<ext_stage, oracle_answer, requested, ext_prompts, oracle_calls,
             prompt_pass, passes_run>>

VARIABLES
    handler,             \* handler[t]: where the endpoint of request t is
    runs,                \* history: runs[t], the crew.kickoff calls it started
    http                 \* what request t was answered with

reqVars == <<handler, runs, http>>

vars == <<gateVars, pipeVars, extVars, reqVars>>

Primaries == tasks \cap AllPrimaries
Secondaries == tasks \cap AllSecondaries

(* --------------------------- the event loop ---------------------------- *)

\* Tasks in the middle of a run: between two awaits that do not suspend them
\* (an endpoint in its `except` block has not awaited since the release).
MidRun ==
    {t \in tasks : \/ pc[t] \in {"waitCnt", "inc", "fin", "dec", "sfin"}
                   \/ handler[t] = "except"}

\* asyncio runs the tasks of a loop one at a time: a task takes a step only
\* when no other task is in the middle of a run.
Scheduled(t) == MidRun \subseteq {t}

(* ------------------- ResourceLockManager.__init__ ---------------------- *)

\* (a slip: one permit more than the configured capacity)
InitialPermits_OneMore == MAX_CONCURRENT_ARTICLES + 1

\* line 40: asyncio.Semaphore(MAX_CONCURRENT_ARTICLES)
InitialPermits == MAX_CONCURRENT_ARTICLES

GateInit(ts) ==
    /\ tasks = ts
    /\ pc = [t \in ts |-> "idle"]
    /\ article_semaphore = InitialPermits
    /\ article_generating = TRUE
    /\ active_articles = 0
    /\ active_articles_lock = FALSE
    /\ image_lock = FALSE
    /\ waiting_images = 0
    /\ exitKind = [t \in ts |-> "none"]
    /\ handler = [t \in ts |-> "none"]
    /\ runs = [t \in ts |-> 0]
    /\ http = [t \in ts |-> "none"]

(* ------------- ResourceLockManager.article_generation ------------------ *)

\* (a slip: an off-by-one test of the permits)
SemaphoreFree_OffByOne == article_semaphore >= 0

\* asyncio.Semaphore.acquire() returns when a permit is free.
SemaphoreFree == article_semaphore > 0

\* (a slip: the capacity semaphore used as the counter's lock too)
CounterLockFree_NeedsPermit == article_semaphore > 0

\* asyncio.Lock.acquire() on the counter lock returns when it is unlocked.
CounterLockFree == ~active_articles_lock

\* `if self._active_articles == 1: self._article_generating.clear()`
ClearsBarrier(count) == count = 1

\* (a slip: the event set by every release, not only by the last one)
SetsBarrier_EveryRelease(count) == TRUE

\* `if self._active_articles == 0: self._article_generating.set()`
SetsBarrier(count) == count = 0

\* (a slip: the permit is not given back)
ReleasePermit_Forgotten(free) == free

\* line 96: self._article_semaphore.release()
ReleasePermit(free) == free + 1

\* (a slip: the release code after the yield, without try/finally)
AfterPrimaryBody_NoFinally(kind) == IF kind = "exc" THEN "idle" ELSE "fin"

\* try: yield / finally: -- the release code runs on either kind of exit.
AfterPrimaryBody(kind) == "fin"

\* A caller enters `async with resource_lock.article_generation()`; line 72:
\* Semaphore.acquire() takes a free permit without suspending the task, and
\* otherwise leaves it waiting.
PrimaryRequest(t) ==
    /\ pc[t] = "idle"
    /\ Scheduled(t)
    /\ IF SemaphoreFree
       THEN /\ article_semaphore' = article_semaphore - 1
            /\ pc' = [pc EXCEPT ![t] = "waitCnt"]
       ELSE /\ article_semaphore' = article_semaphore
            /\ pc' = [pc EXCEPT ![t] = "waitSem"]
    /\ exitKind' = [exitKind EXCEPT ![t] = "none"]
    /\ UNCHANGED <<pipeVars, extVars, tasks, article_generating, active_articles,
                   active_articles_lock, image_lock, waiting_images>>

\* line 72: a task waiting in Semaphore.acquire() gets a permit
AcquireSemaphore(t) ==
    /\ pc[t] = "waitSem"
    /\ Scheduled(t)
    /\ SemaphoreFree
    /\ article_semaphore' = article_semaphore - 1
    /\ pc' = [pc EXCEPT ![t] = "waitCnt"]
    /\ UNCHANGED <<pipeVars, extVars, tasks, article_generating, active_articles, active_articles_lock,
                   image_lock, waiting_images, exitKind>>

\* line 75: async with self._active_articles_lock (entry)
LockCounterEnter(t) ==
    /\ pc[t] = "waitCnt"
    /\ Scheduled(t)
    /\ CounterLockFree
    /\ active_articles_lock' = TRUE
    /\ pc' = [pc EXCEPT ![t] = "inc"]
    /\ UNCHANGED <<pipeVars, extVars, tasks, article_semaphore, article_generating, active_articles,
                   image_lock, waiting_images, exitKind>>

\* lines 76-78, and the exit of the `async with` block
Increment(t) ==
    /\ pc[t] = "inc"
    /\ Scheduled(t)
    /\ active_articles' = active_articles + 1
    /\ article_generating' =
          IF ClearsBarrier(active_articles') THEN FALSE ELSE article_generating
    /\ active_articles_lock' = FALSE
    /\ pc' = [pc EXCEPT ![t] = "body"]
    /\ UNCHANGED <<pipeVars, extVars, tasks, article_semaphore, image_lock, waiting_images,
                   exitKind>>

\* lines 82-84: the body ends, normally or by an exception
PrimaryBodyExit(t, kind) ==
    /\ pc[t] = "body"
    /\ Scheduled(t)
    /\ exitKind' = [exitKind EXCEPT ![t] = kind]
    /\ pc' = [pc EXCEPT ![t] = AfterPrimaryBody(kind)]
    /\ UNCHANGED <<pipeVars, extVars, tasks, article_semaphore, article_generating, active_articles,
                   active_articles_lock, image_lock, waiting_images>>

\* line 86: async with self._active_articles_lock (entry, in finally)
LockCounterExit(t) ==
    /\ pc[t] = "fin"
    /\ Scheduled(t)
    /\ CounterLockFree
    /\ active_articles_lock' = TRUE
    /\ pc' = [pc EXCEPT ![t] = "dec"]
    /\ UNCHANGED <<pipeVars, extVars, tasks, article_semaphore, article_generating, active_articles,
                   image_lock, waiting_images, exitKind>>

\* lines 87-96: the counter update, the exit of the `async with` block and
\* the release of the permit; nothing in them waits.  Event.set() resolves the
\* future of every task blocked in Event.wait(): each of them returns from
\* wait() when it next runs, whatever the event reads by then.
Decrement(t) ==
    /\ pc[t] = "dec"
    /\ Scheduled(t)
    /\ active_articles' = active_articles - 1
    /\ IF SetsBarrier(active_articles')
       THEN /\ article_generating' = TRUE
            /\ pc' = [u \in tasks |->
                        IF u = t THEN "idle"
                        ELSE IF pc[u] = "blocked" THEN "passed" ELSE pc[u]]
       ELSE /\ article_generating' = article_generating
            /\ pc' = [pc EXCEPT ![t] = "idle"]
    /\ active_articles_lock' = FALSE
    /\ article_semaphore' = ReleasePermit(article_semaphore)
    /\ UNCHANGED <<pipeVars, extVars, tasks, image_lock, waiting_images, exitKind>>

(* -------------- ResourceLockManager.image_generation ------------------- *)

\* asyncio.Event.wait() returns at once when the event is set.
BarrierOpen == article_generating

\* (a slip: the image lock never waited for)
ImageLockFree_Ignored == TRUE

\* asyncio.Lock.acquire() on the image lock returns when it is unlocked.
ImageLockFree == ~image_lock

\* try: ... yield / finally: -- the release code runs on either kind of exit.
AfterSecondaryBody(kind) == "sfin"

\* lines 110-130.  Event.wait() returns at once when the event is set and
\* Lock.acquire() returns at once when the lock is free: a request that finds
\* both is in its body without having been suspended.  Otherwise the task
\* blocks on the event ("blocked") or, past it, on the image lock ("passed").
SecondaryRequest(s) ==
    /\ pc[s] = "idle"
    /\ Scheduled(s)
    /\ IF BarrierOpen /\ ImageLockFree
       THEN /\ image_lock' = TRUE
            /\ waiting_images' = waiting_images
            /\ pc' = [pc EXCEPT ![s] = "sbody"]
       ELSE /\ image_lock' = image_lock
            /\ waiting_images' = waiting_images + 1
            /\ pc' = [pc EXCEPT ![s] = IF BarrierOpen THEN "passed" ELSE "blocked"]
    /\ exitKind' = [exitKind EXCEPT ![s] = "none"]
    /\ UNCHANGED <<reqVars, pipeVars, extVars, tasks, article_semaphore, article_generating, active_articles,
                   active_articles_lock>>

\* lines 125-130: a task past the event (woken from Event.wait(), or waiting
\* in Lock.acquire()) gets the image lock, and its body starts
AcquireImageLock(s) ==
    /\ pc[s] = "passed"
    /\ Scheduled(s)
    /\ ImageLockFree
    /\ image_lock' = TRUE
    /\ waiting_images' = waiting_images - 1
    /\ pc' = [pc EXCEPT ![s] = "sbody"]
    /\ UNCHANGED <<reqVars, pipeVars, extVars, tasks, article_semaphore, article_generating, active_articles,
                   active_articles_lock, exitKind>>

\* lines 130-131: the body ends, normally or by an exception
SecondaryBodyExit(s, kind) ==
    /\ pc[s] = "sbody"
    /\ Scheduled(s)
    /\ exitKind' = [exitKind EXCEPT ![s] = kind]
    /\ pc' = [pc EXCEPT ![s] = AfterSecondaryBody(kind)]
    /\ UNCHANGED <<reqVars, pipeVars, extVars, tasks, article_semaphore, article_generating, active_articles,
                   active_articles_lock, image_lock, waiting_images>>

\* line 133: self._image_lock.release()
ReleaseImageLock(s) ==
    /\ pc[s] = "sfin"
    /\ Scheduled(s)
    /\ image_lock' = FALSE
    /\ pc' = [pc EXCEPT ![s] = "idle"]
    /\ UNCHANGED <<reqVars, pipeVars, extVars, tasks, article_semaphore, article_generating, active_articles,
                   active_articles_lock, waiting_images, exitKind>>

(* ========== ImageGenerationService._embed_images_at_positions ========== *)

(* The article is the sequence of its lines (content.split('\n'): never    *)
(* empty, the empty text is one blank line).  The embedder looks at a line *)
(* only through line.strip(): blank, a '## ' heading, another line         *)
(* starting with '#', or body text.  A "tag" line is a line that holds     *)
(* only an [IMAGE_PROMPT: ...] tag.  Indices are the code's: from 0.       *)

Max(a, b) == IF a >= b THEN a ELSE b
Min(a, b) == IF a <= b THEN a ELSE b

LineKinds == {"h2", "h", "blank", "text", "tag"}

\* A line of text; idx tells the lines of an article apart (0: a separator
\* line the embedder adds).
TextLine(k) == [kind |-> k, idx |-> 0, url |-> ""]

\* line 509: f'\n\n![{alt_text}]({image_url})\n\n', stripped when inserted;
\* idx names the prompt the alt text is made from.
ImageLine(i, u) == [kind |-> "img", idx |-> i, url |-> u]

\* lines[j] of the code
At(lines, j) == lines[j + 1]

\* line 494: re.sub(r'\[IMAGE[_\s]PROMPT:[^\]]+\]', '', content)
CleanContent(content) ==
    [i \in 1..Len(content) |->
        IF content[i].kind = "tag"
        THEN [content[i] EXCEPT !.kind = "blank"] ELSE content[i]]

\* `not lines[j].strip()`
IsBlank(l) == l.kind = "blank"

\* `line.strip().startswith('## ')`
IsH2(l) == l.kind = "h2"

\* `lines[j].strip() and not lines[j].strip().startswith('#')`
IsBody(l) == ~IsBlank(l) /\ l.kind \notin {"h2", "h"}

\* lines 501-506: `not image_url`, and a URL of blanks only
UsableUrl(u) == u # "" /\ u # " "

\* lines 497-513: the markdown of the successful results, in list order
RECURSIVE SuccessfulImages(_, _, _)
SuccessfulImages(ps, results, i) ==
    IF i > Min(Len(ps), Len(results)) THEN <<>>
    ELSE (IF results[i].success /\ UsableUrl(results[i].url)
          THEN <<ImageLine(ps[i], results[i].url)>>
          ELSE <<>>) \o SuccessfulImages(ps, results, i + 1)

InSeq(x, sq) == \E k \in 1..Len(sq) : sq[k] = x

\* `if pos not in insertion_points: insertion_points.append(pos)`
AppendNew(pts, pos) == IF InSeq(pos, pts) THEN pts ELSE Append(pts, pos)

\* lines 530-539: the end of the paragraph after the heading at line i
RECURSIVE ParaEnd(_, _, _)
ParaEnd(lines, i, j) ==
    IF j >= Min(i + HEADING_WINDOW, Len(lines)) THEN i + 1
    ELSE IF IsBody(At(lines, j))
         THEN IF j + 1 < Len(lines) /\ IsBlank(At(lines, j + 1)) THEN j + 1
              ELSE IF j + 1 >= Len(lines) THEN j + 1
              ELSE ParaEnd(lines, i, j + 1)
         ELSE ParaEnd(lines, i, j + 1)

\* lines 527-543: Strategy 1, from line i on
RECURSIVE HeadingPoints(_, _, _, _)
HeadingPoints(lines, n, i, pts) ==
    IF i >= Len(lines) THEN pts
    ELSE IF IsH2(At(lines, i))
         THEN LET pts2 == AppendNew(pts, ParaEnd(lines, i, i + 1))
              IN  IF Len(pts2) >= n THEN pts2
                  ELSE HeadingPoints(lines, n, i + 1, pts2)
         ELSE HeadingPoints(lines, n, i + 1, pts)

\* lines 548-555: Strategy 2, from line i down
RECURSIVE ParagraphPoints(_, _, _, _)
ParagraphPoints(lines, n, i, pts) ==
    IF i < 0 THEN pts
    ELSE IF /\ IsBody(At(lines, i))
            /\ i + 1 < Len(lines)
            /\ IsBlank(At(lines, i + 1))
         THEN LET pts2 == AppendNew(pts, i + 1)
              IN  IF Len(pts2) >= n THEN pts2
                  ELSE ParagraphPoints(lines, n, i - 1, pts2)
         ELSE ParagraphPoints(lines, n, i - 1, pts)

\* lines 559-564: Strategy 3, from the i-th point on
RECURSIVE SpacedPoints(_, _, _, _)
SpacedPoints(lines, n, i, pts) ==
    IF i > n THEN pts
    ELSE LET spacing == Max(Len(lines) \div (n + 1), MIN_SPACING)
             pos == Min(i * spacing, Len(lines) - 1)
         IN  SpacedPoints(lines, n, i + 1, AppendNew(pts, pos))

\* lines 526-564: the candidates of the three strategies, in the order found
Candidates(lines, n) ==
    LET p1 == HeadingPoints(lines, n, 0, <<>>)
        p2 == IF Len(p1) < n
              THEN ParagraphPoints(lines, n, Len(lines) - 1, p1) ELSE p1
    IN  IF Len(p1) < n /\ Len(p2) < n THEN SpacedPoints(lines, n, 1, p2) ELSE p2

\* sorted(): insertion sort of a sequence of numbers
RECURSIVE SortAsc(_)
SortAsc(sq) ==
    IF Len(sq) <= 1 THEN sq
    ELSE LET rest == SortAsc(Tail(sq))
             lower == SelectSeq(rest, LAMBDA x : x < Head(sq))
             upper == SelectSeq(rest, LAMBDA x : x >= Head(sq))
         IN  lower \o <<Head(sq)>> \o upper

\* line 567: sorted(insertion_points[:len(successful_images)])
InsertionPoints(lines, n) ==
    LET c == Candidates(lines, n)
    IN  SortAsc(SubSeq(c, 1, Min(n, Len(c))))

\* (a slip: the line at the position overwritten, lines[k] = x)
ListInsert_Overwrite(lines, k, x) ==
    LET at == Min(k, Len(lines))
    IN  SubSeq(lines, 1, at) \o <<x>> \o SubSeq(lines, at + 2, Len(lines))

\* list.insert(k, x): past the end it appends
ListInsert(lines, k, x) ==
    LET at == Min(k, Len(lines))
    IN  SubSeq(lines, 1, at) \o <<x>> \o SubSeq(lines, at + 1, Len(lines))

\* (a slip: the images taken from the front while the points are taken
\* from the back)
ImageIndex_Forward(n, idx) == idx

\* line 573: image_idx = len(successful_images) - 1 - idx
ImageIndex(n, idx) == n - 1 - idx

\* lines 572-576: the insertions, last point first, from the idx-th on
RECURSIVE InsertImages(_, _, _, _)
InsertImages(lines, pts, imgs, idx) ==
    IF idx >= Len(pts) THEN lines
    ELSE LET pos == pts[Len(pts) - idx]
             img == At(imgs, ImageIndex(Len(imgs), idx))
         IN  InsertImages(ListInsert(lines, pos + 1, img), pts, imgs, idx + 1)

\* len(re.findall(r'!\[.*?\]\(.*?\)', text)): one match for each marker line
MarkerCount(lines) == Cardinality({i \in 1..Len(lines) : lines[i].kind = "img"})

\* lines 587, 595: cleaned + '\n\n' + '\n\n'.join(images)
RECURSIVE AppendAtEnd(_, _)
AppendAtEnd(lines, imgs) ==
    IF imgs = <<>> THEN lines
    ELSE AppendAtEnd(lines \o <<TextLine("blank"), Head(imgs)>>, Tail(imgs))

\* (a slip: the text returned without the images)
EmbedImagesAtPositions_TextOnly(content, ps, results) == CleanContent(content)

\* lines 476-595
EmbedImagesAtPositions(content, ps, results) ==
    LET cleaned == CleanContent(content)
        imgs == SuccessfulImages(ps, results, 1)
    IN  IF imgs = <<>> THEN cleaned
        ELSE LET pts == InsertionPoints(cleaned, Len(imgs))
                 spliced == InsertImages(cleaned, pts, imgs, 0)
             IN  IF MarkerCount(spliced) = 0
                 THEN AppendAtEnd(cleaned, imgs)
                 ELSE spliced

(* ================ generate_image_prompts_from_article ================== *)

(* The oracle's answer is a text, kept as the sequence of its tokens: a word *)
(* run (letters and the blanks between them, n characters, told apart by    *)
(* id), the word "Prompt", a digit, and the characters the parser looks     *)
(* for: '.', ':', '-', a blank, a newline, a double quote and a code fence  *)
(* (three backticks).                                                       *)

Tok(c) == [c |-> c, n |-> 1, id |-> 0]
Word(n, id) == [c |-> "w", n |-> n, id |-> id]
Label == [c |-> "P", n |-> 6, id |-> 0]
Fence == [c |-> "f", n |-> 3, id |-> 0]

\* \s of the regular expressions, and the characters of str.strip()
Space == {" ", "\n"}

\* the characters of .strip('"\'`')
Quotes == {"q", "f"}

\* len(text)
RECURSIVE Chars(_)
Chars(text) == IF text = <<>> THEN 0 ELSE Head(text).n + Chars(Tail(text))

\* the text without the characters of cs at its start
RECURSIVE DropWhile(_, _)
DropWhile(text, cs) ==
    IF text # <<>> /\ Head(text).c \in cs THEN DropWhile(Tail(text), cs) ELSE text

\* the text without the characters of cs at its end
RECURSIVE DropEnd(_, _)
DropEnd(text, cs) ==
    IF text # <<>> /\ text[Len(text)].c \in cs
    THEN DropEnd(SubSeq(text, 1, Len(text) - 1), cs) ELSE text

\* str.strip(), and .strip('"\'`')
StripOf(text, cs) == DropEnd(DropWhile(text, cs), cs)

\* (a slip: the numbering left in front of the text)
RemoveNumbering_Kept(text) == text

\* re.sub(r'^\d+[\.\)]\s*', '', text)
RemoveNumbering(text) ==
    LET d == DropWhile(text, {"1"})
    IN  IF d # text /\ d # <<>> /\ Head(d).c = "."
        THEN DropWhile(Tail(d), Space) ELSE text

\* re.sub(r'^[-*•]\s+', '', text)
RemoveBullet(text) ==
    IF Len(text) >= 2 /\ text[1].c = "-" /\ text[2].c \in Space
    THEN DropWhile(Tail(text), Space) ELSE text

\* re.sub(r'^Prompt\s*\d*[:\-]\s*', '', text, flags=re.IGNORECASE)
RemoveLabel(text) ==
    IF text # <<>> /\ Head(text).c = "P"
    THEN LET d == DropWhile(DropWhile(Tail(text), Space), {"1"})
         IN  IF d # <<>> /\ Head(d).c \in {":", "-"}
             THEN DropWhile(Tail(d), Space) ELSE text
    ELSE text

\* text.split(sep) for a one-character separator: cur is the piece being read
RECURSIVE SplitAt(_, _, _)
SplitAt(text, sep, cur) ==
    IF text = <<>> THEN <<cur>>
    ELSE IF Head(text).c = sep THEN <<cur>> \o SplitAt(Tail(text), sep, <<>>)
         ELSE SplitAt(Tail(text), sep, Append(cur, Head(text)))

\* lines 90-103: a line of the answer, cleaned
CleanLine(line) ==
    StripOf(StripOf(RemoveLabel(RemoveBullet(RemoveNumbering(
        StripOf(line, Space)))), Quotes), Space)

\* the least number of characters of a prompt of the line-based pass (line
\* 107), of the paragraph-based pass (line 130) and of the sentence-based
\* pass (line 144)
MIN_LINE_PROMPT == 15
MIN_SEGMENT_PROMPT == 15
MIN_SENTENCE_PROMPT == 30

\* (a slip: the collection never stopped)
Enough_Never(count, n) == FALSE

\* `if len(prompts) >= image_count: break`
Enough(count, n) == count >= n

\* lines 89-110: the line-based pass, over the lines not yet read
RECURSIVE LinePass(_, _, _)
LinePass(lines, n, ps) ==
    IF lines = <<>> THEN ps
    ELSE IF StripOf(Head(lines), Space) = <<>> THEN LinePass(Tail(lines), n, ps)
    ELSE LET line == CleanLine(Head(lines))
         IN  IF Chars(line) >= MIN_LINE_PROMPT
             THEN IF Enough(Len(ps) + 1, n) THEN Append(ps, line)
                  ELSE LinePass(Tail(lines), n, Append(ps, line))
             ELSE LinePass(Tail(lines), n, ps)

\* the first code fence of the text that has a closing fence, as <<i, j>>
\* (<<0, 0>>: none); every earlier fence would start a match as well, so the
\* first fence with a closing one is the first fence
FirstFence(text) ==
    LET fs == {i \in 1..Len(text) : text[i].c = "f"}
    IN  IF Cardinality(fs) < 2 THEN <<0, 0>>
        ELSE LET i == CHOOSE x \in fs : \A y \in fs : x <= y
                 j == CHOOSE x \in fs \ {i} : \A y \in fs \ {i} : x <= y
             IN  <<i, j>>

\* line 119: re.sub(r'```[^`]*```', '', text, flags=re.DOTALL)
RECURSIVE RemoveCodeBlocks(_)
RemoveCodeBlocks(text) ==
    LET f == FirstFence(text)
    IN  IF f[1] = 0 THEN text
        ELSE SubSeq(text, 1, f[1] - 1)
                 \o RemoveCodeBlocks(SubSeq(text, f[2] + 1, Len(text)))

\* the end of the run of blanks and newlines that starts at i
RECURSIVE SpaceRunEnd(_, _)
SpaceRunEnd(text, i) ==
    IF i < Len(text) /\ text[i + 1].c \in Space THEN SpaceRunEnd(text, i + 1) ELSE i

\* the end of the match of \n\s*\n+ at i (0: no match): the last newline of
\* the run of blanks and newlines that starts with the newline at i
BreakEnd(text, i) ==
    IF text[i].c # "\n" THEN 0
    ELSE LET nl == {j \in (i + 1)..SpaceRunEnd(text, i) : text[j].c = "\n"}
         IN  IF nl = {} THEN 0 ELSE CHOOSE j \in nl : \A k \in nl : k <= j

\* line 122: re.split(r'\n\s*\n+', text), from token i on
RECURSIVE SplitSegments(_, _, _)
SplitSegments(text, i, cur) ==
    IF i > Len(text) THEN <<cur>>
    ELSE IF BreakEnd(text, i) # 0
         THEN <<cur>> \o SplitSegments(text, BreakEnd(text, i) + 1, <<>>)
         ELSE SplitSegments(text, i + 1, Append(cur, text[i]))

\* lines 124-128: a segment, cleaned
CleanSegment(segment) ==
    StripOf(StripOf(RemoveBullet(RemoveNumbering(StripOf(segment, Space))),
                    Quotes), Space)

\* lines 123-133 and 140-147: the pieces of a later pass, cleaned already, of
\* at least least characters and not among the prompts
RECURSIVE CollectNew(_, _, _, _)
CollectNew(pieces, least, n, ps) ==
    IF pieces = <<>> THEN ps
    ELSE IF Chars(Head(pieces)) >= least /\ ~InSeq(Head(pieces), ps)
         THEN IF Enough(Len(ps) + 1, n) THEN Append(ps, Head(pieces))
              ELSE CollectNew(Tail(pieces), least, n, Append(ps, Head(pieces)))
         ELSE CollectNew(Tail(pieces), least, n, ps)

\* lines 113-133: the paragraph-based pass
SegmentPass(content, n, ps) ==
    LET segments == SplitSegments(RemoveCodeBlocks(content), 1, <<>>)
    IN  CollectNew([k \in 1..Len(segments) |-> CleanSegment(segments[k])],
                   MIN_SEGMENT_PROMPT, n, ps)

\* line 139: re.split(r'[.!?]\s+', text), from token i on
RECURSIVE SplitSentences(_, _, _)
SplitSentences(text, i, cur) ==
    IF i > Len(text) THEN <<cur>>
    ELSE IF text[i].c = "." /\ i < Len(text) /\ text[i + 1].c \in Space
         THEN <<cur>> \o SplitSentences(text, SpaceRunEnd(text, i) + 1, <<>>)
         ELSE SplitSentences(text, i + 1, Append(cur, text[i]))

\* lines 141-143: a sentence, cleaned
CleanSentence(sentence) ==
    StripOf(StripOf(RemoveNumbering(StripOf(sentence, Space)), Quotes), Space)

\* lines 136-147: the sentence-based pass
SentencePass(content, n, ps) ==
    LET sentences == SplitSentences(content, 1, <<>>)
    IN  CollectNew([k \in 1..Len(sentences) |-> CleanSentence(sentences[k])],
                   MIN_SENTENCE_PROMPT, n, ps)

\* lines 79-158: the prompts parsed from an answer with content
ParsePrompts(answer, n) ==
    LET content == StripOf(answer, Space)
        p1 == LinePass(SplitAt(content, "\n", <<>>), n, <<>>)
        p2 == IF Len(p1) < n THEN SegmentPass(content, n, p1) ELSE p1
    IN  IF Len(p2) < n /\ content # <<>> THEN SentencePass(content, n, p2) ELSE p2

\* The extractor is not called (the specifications of the other parts).
ExtOff ==
    /\ ext_stage = "off"
    /\ oracle_answer = <<>>
    /\ requested = 0
    /\ ext_prompts = <<>>
    /\ oracle_calls = 0
    /\ prompt_pass = <<>>
    /\ passes_run = <<>>

OracleOutcomes == {"content", "empty", "fail", "raise"}

\* lines 73-79, 159-166: the one call of the oracle; an answer without
\* content, a failure and an exception end the call with no prompts
CallOracle(outcome) ==
    /\ ext_stage = "start"
    /\ oracle_calls' = oracle_calls + 1
    /\ ext_stage' = IF outcome = "content" /\ oracle_answer # <<>>
                    THEN "lines" ELSE "returned"
    /\ UNCHANGED <<reqVars, gateVars, pipeVars, oracle_answer, requested, ext_prompts,
                   prompt_pass, passes_run>>

\* the passes of the prompts of ps2 that are not in ps already
PassOfNew(ps, ps2, pass) == [k \in 1..(Len(ps2) - Len(ps)) |-> pass]

\* lines 81-110: the line-based pass
RunLinePass ==
    /\ ext_stage = "lines"
    /\ LET content == StripOf(oracle_answer, Space)
           found == LinePass(SplitAt(content, "\n", <<>>), requested, <<>>)
       IN  /\ ext_prompts' = found
           /\ prompt_pass' = PassOfNew(<<>>, found, 1)
           /\ passes_run' = <<[pass |-> 1, before |-> 0]>>
    /\ ext_stage' = "segments"
    /\ UNCHANGED <<reqVars, gateVars, pipeVars, oracle_answer, requested, oracle_calls>>

\* lines 113-133: the paragraph-based pass, if prompts are missing
RunSegmentPass ==
    /\ ext_stage = "segments"
    /\ IF Len(ext_prompts) < requested
       THEN LET found == SegmentPass(StripOf(oracle_answer, Space), requested,
                                     ext_prompts)
            IN  /\ ext_prompts' = found
                /\ prompt_pass' = prompt_pass \o PassOfNew(ext_prompts, found, 2)
                /\ passes_run' = Append(passes_run,
                                    [pass |-> 2, before |-> Len(ext_prompts)])
       ELSE UNCHANGED <<ext_prompts, prompt_pass, passes_run>>
    /\ ext_stage' = "sentences"
    /\ UNCHANGED <<reqVars, gateVars, pipeVars, oracle_answer, requested, oracle_calls>>

\* lines 136-147: the sentence-based pass, if prompts are still missing
RunSentencePass ==
    /\ ext_stage = "sentences"
    /\ IF Len(ext_prompts) < requested /\ StripOf(oracle_answer, Space) # <<>>
       THEN LET found == SentencePass(StripOf(oracle_answer, Space), requested,
                                      ext_prompts)
            IN  /\ ext_prompts' = found
                /\ prompt_pass' = prompt_pass \o PassOfNew(ext_prompts, found, 3)
                /\ passes_run' = Append(passes_run,
                                    [pass |-> 3, before |-> Len(ext_prompts)])
       ELSE UNCHANGED <<ext_prompts, prompt_pass, passes_run>>
    /\ ext_stage' = "return"
    /\ UNCHANGED <<reqVars, gateVars, pipeVars, oracle_answer, requested, oracle_calls>>

\* line 158: return prompts
ReturnPrompts ==
    /\ ext_stage = "return"
    /\ ext_stage' = "returned"
    /\ UNCHANGED <<reqVars, gateVars, pipeVars, oracle_answer, requested, ext_prompts,
                   oracle_calls, prompt_pass, passes_run>>

(* ===== ImageGenerationService.generate_and_embed_images (pipeline) ===== *)

(* A prompt is named by its index in the prompt list.  The temporary URL   *)
(* of the generation backend and the public URL of the storage are named   *)
(* after the prompt they belong to.                                        *)

HfUrl(i) == <<"hf_1", "hf_2">>[i]
S3Url(i) == <<"s3_1", "s3_2">>[i]

Failure(msg) == [success |-> FALSE, url |-> "", error |-> msg]
Success(u) == [success |-> TRUE, url |-> u, error |-> ""]

NoResponse == [success |-> FALSE, content |-> <<>>, images |-> <<>>,
               message |-> "none"]

\* The articles of at most n lines; line i carries its number.
Docs(n) ==
    UNION {{[i \in 1..k |-> [TextLine(f[i]) EXCEPT !.idx = i]] :
               f \in [1..k -> LineKinds]} : k \in 1..n}

\* The pipeline call has not started (the gate's specifications).
PipeOff ==
    /\ stage = "off"
    /\ article_content = <<>>
    /\ image_count = 0
    /\ prompts = <<>>
    /\ jobs = <<>>
    /\ image_results = <<>>
    /\ checked = <<>>
    /\ response = NoResponse
    /\ completed = <<>>
    /\ verdicts = <<>>
    /\ raised = FALSE

\* A call of generate_and_embed_images(article_content, image_count).
PipeInit ==
    /\ GateInit({})
    /\ ExtOff
    /\ stage = "start"
    /\ article_content \in Docs(PipeMaxLines)
    /\ image_count \in (-1)..MaxImageCount
    /\ prompts = <<>>
    /\ jobs = <<>>
    /\ image_results = <<>>
    /\ checked = <<>>
    /\ response = NoResponse
    /\ completed = <<>>
    /\ verdicts = <<>>
    /\ raised = FALSE

\* lines 227-233: `if image_count <= 0`
NoImagesRequested ==
    /\ stage = "start"
    /\ image_count <= 0
    /\ response' = [success |-> TRUE, content |-> article_content,
                    images |-> <<>>, message |-> "No images requested"]
    /\ stage' = "done"
    /\ UNCHANGED <<reqVars, gateVars, extVars, article_content, image_count, prompts, jobs,
                   image_results, checked, completed, verdicts, raised>>

\* (a slip: the count asked for taken as it is)
CappedCount_Uncapped(n) == n

\* line 236: image_count = min(image_count, 2)
CappedCount(n) == Min(n, MAX_IMAGES)

\* lines 236-279: the prompt extractor is called (it calls the oracle once)
\* and returns k prompts, at most the capped count asked for; none ends the
\* call, otherwise one generation call per prompt is started (lines 376-381).
ExtractPrompts(k) ==
    /\ stage = "start"
    /\ image_count > 0
    /\ k \in 0..CappedCount(image_count)
    /\ oracle_calls' = oracle_calls + 1
    /\ IF k = 0
       THEN /\ response' = [success |-> FALSE, content |-> article_content,
                            images |-> <<>>,
                            message |-> "Failed to generate image prompts"]
            /\ stage' = "done"
            /\ UNCHANGED <<prompts, jobs>>
       ELSE /\ prompts' = [i \in 1..k |-> i]
            /\ jobs' = [i \in 1..k |-> [at |-> "generate", result |-> Failure(""),
                                              uploaded |-> FALSE, cleanup |-> "none"]]
            /\ stage' = "batch"
            /\ UNCHANGED response
    /\ UNCHANGED <<reqVars, gateVars, ext_stage, oracle_answer, requested, ext_prompts,
                   prompt_pass, passes_run, article_content, image_count,
                   image_results, checked, completed, verdicts, raised>>

\* (a slip: a failure that ends the sibling calls too, as a gather() without
\* return_exceptions over calls that let their exceptions out would)
FailCall_AbortsBatch(js, i, msg) ==
    [j \in 1..Len(js) |-> [js[j] EXCEPT !.at = "done", !.result = Failure(msg)]]

\* lines 416-419, 434-437, 455-467: the call of prompt i returns a failure
\* dict; the exceptions of its awaits are caught in the call itself
FailCall(js, i, msg) ==
    [js EXCEPT ![i].at = "done", ![i].result = Failure(msg)]

GenerateOutcomes == {"ok", "nourl", "fail", "raise"}

\* lines 404-420, 454-467: hf_service.generate_image returns or raises
GenerateImage(i, outcome) ==
    /\ stage = "batch"
    /\ i \in 1..Len(jobs)
    /\ jobs[i].at = "generate"
    /\ jobs' =
          CASE outcome = "ok" ->
                 [jobs EXCEPT ![i].at = "upload"]
            [] outcome = "nourl" ->
                 FailCall(jobs, i, "Image generated but no URL returned")
            [] outcome = "fail" -> FailCall(jobs, i, "generation failed")
            [] outcome = "raise" -> FailCall(jobs, i, "exception")
    /\ completed' = IF outcome = "ok" THEN completed ELSE Append(completed, i)
    /\ UNCHANGED <<reqVars, gateVars, extVars, stage, article_content, image_count, prompts,
                   image_results, checked, response, verdicts, raised>>

UploadOutcomes == {"ok", "fail", "raise"}

\* lines 422-442, 462-467: s3_service.upload_image_to_s3 returns or raises
UploadImage(i, outcome) ==
    /\ stage = "batch"
    /\ i \in 1..Len(jobs)
    /\ jobs[i].at = "upload"
    /\ jobs' =
          CASE outcome = "ok" ->
                 [jobs EXCEPT ![i].at = "delete", ![i].uploaded = TRUE]
            [] outcome = "fail" ->
                 FailCall(jobs, i, "Failed to save image to storage")
            [] outcome = "raise" -> FailCall(jobs, i, "exception")
    /\ completed' = IF outcome = "ok" THEN completed ELSE Append(completed, i)
    /\ UNCHANGED <<reqVars, gateVars, extVars, stage, article_content, image_count, prompts,
                   image_results, checked, response, verdicts, raised>>

\* (a slip: the URL of the generation backend handed on)
ResultUrl_Temporary(i) == HfUrl(i)

\* lines 440, 449-451: "url": s3_public_url
ResultUrl(i) == S3Url(i)

\* (a slip: a deletion that failed makes the image a failure)
AfterDelete_Escalates(i, deleted) ==
    IF deleted THEN Success(ResultUrl(i)) ELSE Failure("cleanup failed")

\* lines 447-453: the value of delete_file is not looked at
AfterDelete(i, deleted) == Success(ResultUrl(i))

\* lines 444-453: hf_api_service.delete_file returns True or False (it
\* catches what it raises); the result carries the storage URL either way
DeleteFile(i, deleted) ==
    /\ stage = "batch"
    /\ i \in 1..Len(jobs)
    /\ jobs[i].at = "delete"
    /\ jobs' = [jobs EXCEPT ![i].at = "done",
                             ![i].result = AfterDelete(i, deleted),
                             ![i].cleanup = IF deleted THEN "deleted" ELSE "failed"]
    /\ completed' = Append(completed, i)
    /\ UNCHANGED <<reqVars, gateVars, extVars, stage, article_content, image_count, prompts,
                   image_results, checked, response, verdicts, raised>>

\* (a slip: the results in the order the calls ended, as asyncio.as_completed
\* would give them)
ResultOrder_Completion == completed

\* line 381: asyncio.gather returns the results in the order of its arguments
ResultOrder == [i \in 1..Len(jobs) |-> i]

\* lines 381-394: once every call has ended
Gather ==
    /\ stage = "batch"
    /\ \A i \in 1..Len(jobs) : jobs[i].at = "done"
    /\ image_results' = [k \in 1..Len(jobs) |-> jobs[ResultOrder[k]].result]
    /\ checked' = <<>>
    /\ stage' = "safety"
    /\ UNCHANGED <<reqVars, gateVars, extVars, article_content, image_count, prompts, jobs,
                   response, completed, verdicts, raised>>

SafetyVerdicts == {"safe", "unsafe", "error"}

\* safety_service.py:162, 171: the message of an unsafe image and of a check
\* that failed; line 304 puts "Image blocked by safety check: " before it
BlockedMessage(verdict) ==
    IF verdict = "unsafe"
    THEN "Image blocked by safety check: Generated image contains inappropriate content"
    ELSE "Image blocked by safety check: Unable to verify image safety"

\* (a slip: the result of an image kept whatever the check answered)
SafeResult_Unchecked(result, verdict) == result

\* lines 295-305: the entry of safe_image_results for a checked image
SafeResult(result, verdict) ==
    IF verdict = "safe" THEN result ELSE Failure(BlockedMessage(verdict))

\* lines 291-307: one turn of the safety loop; check_image_safety answers
\* (True, None), or (False, message) for an unsafe image or a failed check.
\* A result without URL is not checked ("none").
SafetyCheck(verdict) ==
    /\ stage = "safety"
    /\ Len(checked) < Len(image_results)
    /\ LET result == image_results[Len(checked) + 1]
       IN  IF result.success /\ result.url # ""
           THEN /\ checked' = Append(checked, SafeResult(result, verdict))
                /\ verdicts' = Append(verdicts, verdict)
           ELSE /\ checked' = Append(checked, result)
                /\ verdicts' = Append(verdicts, "none")
    /\ UNCHANGED <<reqVars, gateVars, extVars, stage, article_content, image_count, prompts, jobs,
                   image_results, response, completed, raised>>

\* line 309: image_results = safe_image_results
SafetyDone ==
    /\ stage = "safety"
    /\ Len(checked) = Len(image_results)
    /\ image_results' = checked
    /\ stage' = "embed"
    /\ UNCHANGED <<reqVars, gateVars, extVars, article_content, image_count, prompts, jobs,
                   checked, response, completed, verdicts, raised>>

\* lines 324-336: one metadata record for each result with a URL, in list order
RECURSIVE ImagesMetadata(_, _, _)
ImagesMetadata(ps, results, i) ==
    IF i > Min(Len(ps), Len(results)) THEN <<>>
    ELSE (IF results[i].success /\ results[i].url # ""
          THEN <<[index |-> i, prompt |-> ps[i], url |-> results[i].url]>>
          ELSE <<>>) \o ImagesMetadata(ps, results, i + 1)

\* (a slip: the handler gives the text back without the images)
OnSpliceError_TextOnly(cleaned, imgs) == cleaned

\* lines 591-595: except Exception -- the images appended at the end
OnSpliceError(cleaned, imgs) == AppendAtEnd(cleaned, imgs)

\* lines 476-595, with exc telling whether the code of the try block
\* (lines 521-589) raised; the block is entered with an image to embed only
EmbedOrFallback(content, ps, results, exc) ==
    IF exc /\ SuccessfulImages(ps, results, 1) # <<>>
    THEN OnSpliceError(CleanContent(content), SuccessfulImages(ps, results, 1))
    ELSE EmbedImagesAtPositions(content, ps, results)

\* lines 311-350: embed, count the markers, collect the metadata, return
EmbedAndReturn(exc) ==
    /\ stage = "embed"
    /\ exc => SuccessfulImages(prompts, image_results, 1) # <<>>
    /\ LET final_content ==
              EmbedOrFallback(article_content, prompts, image_results, exc)
           success_count ==
              Cardinality({i \in 1..Len(image_results) : image_results[i].success})
       IN  response' =
              [success |-> TRUE,
               content |-> final_content,
               images |-> ImagesMetadata(prompts, image_results, 1),
               message |-> IF success_count > 0 /\ MarkerCount(final_content) = 0
                           THEN "Generated (WARNING)" ELSE "Generated"]
    /\ raised' = exc
    /\ stage' = "done"
    /\ UNCHANGED <<reqVars, gateVars, extVars, article_content, image_count, prompts, jobs,
                   image_results, checked, completed, verdicts>>

(* --------------------------- specification ----------------------------- *)

ExitKinds == {"ok", "exc"}

GateNext ==
    \/ \E t \in Primaries : PrimaryRequest(t) /\ UNCHANGED reqVars
    \/ \E t \in Primaries : AcquireSemaphore(t) /\ UNCHANGED reqVars
    \/ \E t \in Primaries : LockCounterEnter(t) /\ UNCHANGED reqVars
    \/ \E t \in Primaries : Increment(t) /\ UNCHANGED reqVars
    \/ \E t \in Primaries, kind \in ExitKinds : PrimaryBodyExit(t, kind) /\ UNCHANGED reqVars
    \/ \E t \in Primaries : LockCounterExit(t) /\ UNCHANGED reqVars
    \/ \E t \in Primaries : Decrement(t) /\ UNCHANGED reqVars
    \/ \E s \in Secondaries : SecondaryRequest(s)
    \/ \E s \in Secondaries : AcquireImageLock(s)
    \/ \E s \in Secondaries, kind \in ExitKinds : SecondaryBodyExit(s, kind)
    \/ \E s \in Secondaries : ReleaseImageLock(s)

Init == GateInit(AllPrimaries \cup AllSecondaries) /\ PipeOff /\ ExtOff

Next == GateNext

Spec == Init /\ [][Next]_vars

(* The gate with the media page beside it: POST /api/images/generate        *)
(* (routers/images.py) calls the image backend without going through the    *)
(* gate.  The tasks are those of FairSpec and one request of the media page.*)

\* The requests of the media page.
AllStandalones == {201}
Standalones == tasks \cap AllStandalones

\* images.py:125-134: `await hf_api_service.generate_image(...)`, with no
\* resource lock around it (lines 106-107)
StandaloneGenerate(m) ==
    /\ pc[m] = "idle"
    /\ Scheduled(m)
    /\ pc' = [pc EXCEPT ![m] = "calling"]
    /\ UNCHANGED <<reqVars, pipeVars, extVars, tasks, article_semaphore, article_generating,
                   active_articles, active_articles_lock, image_lock,
                   waiting_images, exitKind>>

\* images.py:136-: the backend has answered, the endpoint goes on and returns
StandaloneReturn(m) ==
    /\ pc[m] = "calling"
    /\ Scheduled(m)
    /\ pc' = [pc EXCEPT ![m] = "idle"]
    /\ UNCHANGED <<reqVars, pipeVars, extVars, tasks, article_semaphore, article_generating,
                   active_articles, active_articles_lock, image_lock,
                   waiting_images, exitKind>>

MediaInit ==
    /\ GateInit(1..LiveNumPrimary \cup {100 + i : i \in 1..LiveNumSecondary}
                   \cup AllStandalones)
    /\ PipeOff
    /\ ExtOff

MediaNext ==
    \/ GateNext
    \/ \E m \in Standalones : StandaloneGenerate(m)
    \/ \E m \in Standalones : StandaloneReturn(m)

MediaSpec == MediaInit /\ [][MediaNext]_vars

(* The gate under fair scheduling: the event loop runs every ready task in *)
(* turn, every body ends, and a task waiting for a semaphore permit or a   *)
(* lock that becomes free again and again eventually gets it (asyncio      *)
(* wakes waiters in FIFO order).  A step of a task is disabled while       *)
(* another task is in the middle of a run, so the fairness is strong: a    *)
(* step that is possible again and again is eventually taken.  Requests    *)
(* are the environment's: nothing forces them, nothing forbids them.       *)

LivePrimaries == 1..LiveNumPrimary
LiveSecondaries == {100 + i : i \in 1..LiveNumSecondary}

FairInit == GateInit(LivePrimaries \cup LiveSecondaries) /\ PipeOff /\ ExtOff

\* The steps of a task other than its request: at most one of them is
\* possible at a time, the one at the task's place.
PrimaryProgress(t) ==
    \/ AcquireSemaphore(t) /\ UNCHANGED reqVars
    \/ LockCounterEnter(t) /\ UNCHANGED reqVars
    \/ Increment(t) /\ UNCHANGED reqVars
    \/ \E kind \in ExitKinds : PrimaryBodyExit(t, kind) /\ UNCHANGED reqVars
    \/ LockCounterExit(t) /\ UNCHANGED reqVars
    \/ Decrement(t) /\ UNCHANGED reqVars

SecondaryProgress(s) ==
    \/ AcquireImageLock(s)
    \/ \E kind \in ExitKinds : SecondaryBodyExit(s, kind)
    \/ ReleaseImageLock(s)

GateFairness ==
    /\ \A t \in LivePrimaries : SF_vars(PrimaryProgress(t))
    /\ \A s \in LiveSecondaries : SF_vars(SecondaryProgress(s))

FairSpec == FairInit /\ [][Next]_vars /\ GateFairness

(* The single-article endpoints of routers/generation.py (topic, keywords, *)
(* trends, spin): each request is a primary task whose body is the run of  *)
(* the crew, crew.kickoff in an executor thread.  The body of the four     *)
(* endpoints is the same; the lines are those of generate_from_topic.      *)

\* (a slip: the error is reported after the first failure)
OnFailure_GivesUp(position) == "done"

\* lines 134-138 and 179-184: an exception of the first run is caught by the
\* inner `except Exception`; one of the second run by the outer one.
OnFailure(position) == IF position = "try" THEN "except" ELSE "done"

\* lines 126-133: the request enters `async with article_generation()` in
\* the try block
TryGenerate(t) ==
    /\ handler[t] = "none"
    /\ PrimaryRequest(t)
    /\ handler' = [handler EXCEPT ![t] = "try"]
    /\ UNCHANGED <<runs, http>>

\* lines 134-137: in the `except` block the request enters
\* `async with article_generation()` again
RetryGenerate(t) ==
    /\ handler[t] = "except"
    /\ PrimaryRequest(t)
    /\ handler' = [handler EXCEPT ![t] = "retry"]
    /\ UNCHANGED <<runs, http>>

\* resource_lock.py:72-75 and 86: the steps of the context manager at which
\* the endpoint does nothing of its own
SlotStep(t) ==
    /\ AcquireSemaphore(t) \/ LockCounterEnter(t) \/ LockCounterExit(t)
    /\ UNCHANGED reqVars

\* lines 130, 133, 138: the context manager is entered and
\* `await loop.run_in_executor(None, crew.kickoff)` starts the run
StartRun(t) ==
    /\ Increment(t)
    /\ runs' = [runs EXCEPT ![t] = @ + 1]
    /\ UNCHANGED <<handler, http>>

\* the run ends: crew.kickoff returns, or raises
EndRun(t, kind) ==
    /\ PrimaryBodyExit(t, kind)
    /\ UNCHANGED reqVars

\* The context manager has released; the endpoint goes on without awaiting:
\* after a run that returned to the response (lines 140-177), after one that
\* raised to the `except` block of its position (134, or 179-184).
LeaveSlot(t) ==
    /\ Decrement(t)
    /\ IF exitKind[t] = "ok"
       THEN /\ handler' = [handler EXCEPT ![t] = "done"]
            /\ http' = [http EXCEPT ![t] = "ok"]
       ELSE /\ handler' = [handler EXCEPT ![t] = OnFailure(handler[t])]
            /\ http' = [http EXCEPT ![t] =
                          IF OnFailure(handler[t]) = "done" THEN "error" ELSE @]
    /\ UNCHANGED runs

RetryInit == GateInit(AllPrimaries) /\ PipeOff /\ ExtOff

RetryNext ==
    \/ \E t \in Primaries : TryGenerate(t)
    \/ \E t \in Primaries : RetryGenerate(t)
    \/ \E t \in Primaries : SlotStep(t)
    \/ \E t \in Primaries : StartRun(t)
    \/ \E t \in Primaries, kind \in ExitKinds : EndRun(t, kind)
    \/ \E t \in Primaries : LeaveSlot(t)

RetrySpec == RetryInit /\ [][RetryNext]_vars

(* The embedder as a function: every article of at most MaxLines lines and *)
(* every list of at most MAX_IMAGES results (a failure, a success with its *)
(* storage URL, a success without URL).                                    *)

ResultChoices(i) == {Failure("generation failed"), Success(S3Url(i)), Success("")}

ResultLists ==
    UNION {{r \in [1..n -> UNION {ResultChoices(i) : i \in 1..n}] :
               \A i \in 1..n : r[i] \in ResultChoices(i)} : n \in 0..MAX_IMAGES}

EmbedInit ==
    /\ GateInit({})
    /\ ExtOff
    /\ stage = "embed"
    /\ article_content \in Docs(MaxLines)
    /\ image_results \in ResultLists
    /\ prompts = [i \in 1..Len(image_results) |-> i]
    /\ image_count = Len(image_results)
    /\ jobs = <<>>
    /\ checked = <<>>
    /\ response = NoResponse
    /\ completed = <<>>
    /\ verdicts = <<>>
    /\ raised = FALSE

EmbedNext == \E exc \in BOOLEAN : EmbedAndReturn(exc)

EmbedSpec == EmbedInit /\ [][EmbedNext]_vars

(* The embedder on longer articles: a '## ' heading and under it up to     *)
(* MaxLongLines - 1 lines of text and blank lines, with one or two          *)
(* successful images.                                                       *)

LongDocs ==
    UNION {{[i \in 1..k |-> [TextLine(IF i = 1 THEN "h2" ELSE f[i]) EXCEPT !.idx = i]] :
               f \in [1..k -> {"text", "blank"}]} : k \in 1..MaxLongLines}

LongInit ==
    /\ GateInit({})
    /\ ExtOff
    /\ stage = "embed"
    /\ article_content \in LongDocs
    /\ image_results \in {[i \in 1..n |-> Success(S3Url(i))] : n \in 1..MAX_IMAGES}
    /\ prompts = [i \in 1..Len(image_results) |-> i]
    /\ image_count = Len(image_results)
    /\ jobs = <<>>
    /\ checked = <<>>
    /\ response = NoResponse
    /\ completed = <<>>
    /\ verdicts = <<>>
    /\ raised = FALSE

LongSpec == LongInit /\ [][EmbedNext]_vars

(* The pipeline: one call of generate_and_embed_images, inside the body of *)
(* a secondary task.                                                       *)

PipeNext ==
    \/ NoImagesRequested
    \/ \E k \in 0..MaxImageCount : ExtractPrompts(k)
    \/ \E i \in 1..MAX_IMAGES, outcome \in GenerateOutcomes : GenerateImage(i, outcome)
    \/ \E i \in 1..MAX_IMAGES, outcome \in UploadOutcomes : UploadImage(i, outcome)
    \/ \E i \in 1..MAX_IMAGES, deleted \in BOOLEAN : DeleteFile(i, deleted)
    \/ Gather
    \/ \E verdict \in SafetyVerdicts : SafetyCheck(verdict)
    \/ SafetyDone
    \/ \E exc \in BOOLEAN : EmbedAndReturn(exc)

PipeSpec == PipeInit /\ [][PipeNext]_vars

(* The prompt extractor as a function: every answer of at most             *)
(* MaxAnswerLines lines, each line of one of the shapes of AnswerLines, and *)
(* every count the pipeline asks for (1..MAX_IMAGES).                       *)

\* A description after a prefix, in quotes or not.
Described(prefix, quoted, desc) ==
    prefix \o (IF quoted THEN <<Tok("q"), desc, Tok("q")>> ELSE <<desc>>)

\* The prefixes: a numbering "1. ", a bullet "- ", a label "Prompt 1: ".
Numbering == <<Tok("1"), Tok("."), Tok(" ")>>
Bullet == <<Tok("-"), Tok(" ")>>
PromptLabel == <<Label, Tok(" "), Tok("1"), Tok(":"), Tok(" ")>>
Prefixes == {Numbering, Bullet, PromptLabel}

\* Lines of a prefix and a description of at least 15 characters.
PrefixedLines(i) ==
    {Described(pre, quoted, Word(n, i)) :
        pre \in Prefixes, quoted \in BOOLEAN, n \in {15}}

\* The shapes of line i of an answer: prefixed descriptions, bare
\* descriptions (also a repetition of that of line 1), descriptions that are
\* too short, a blank line, a code fence, and lines of two sentences.
AnswerLines(i) ==
    PrefixedLines(i) \cup
    { <<Word(20, i)>>, <<Word(20, 1)>>, <<Word(10, i)>>,
      Described(Numbering, FALSE, Word(14, i)),
      <<>>, <<Fence>>,
      <<Word(20, i), Tok("."), Tok(" "), Word(30, i)>>,
      <<Word(10, i), Tok("."), Tok(" "), Word(35, i)>> }

\* '\n'.join(lines)
RECURSIVE JoinLines(_)
JoinLines(lines) ==
    IF Len(lines) = 0 THEN <<>>
    ELSE IF Len(lines) = 1 THEN lines[1]
    ELSE lines[1] \o <<Tok("\n")>> \o JoinLines(Tail(lines))

AnswersOf(k) ==
    {ls \in [1..k -> UNION {AnswerLines(i) : i \in 1..k}] :
        \A i \in 1..k : ls[i] \in AnswerLines(i)}

ExtInit ==
    /\ GateInit({})
    /\ PipeOff
    /\ ext_stage = "start"
    /\ \E k \in 1..MaxAnswerLines : \E ls \in AnswersOf(k) :
          oracle_answer = JoinLines(ls)
    /\ requested \in 1..MAX_IMAGES
    /\ ext_prompts = <<>>
    /\ oracle_calls = 0
    /\ prompt_pass = <<>>
    /\ passes_run = <<>>

ExtNext ==
    \/ \E outcome \in OracleOutcomes : CallOracle(outcome)
    \/ RunLinePass
    \/ RunSegmentPass
    \/ RunSentencePass
    \/ ReturnPrompts

ExtSpec == ExtInit /\ [][ExtNext]_vars

(* ======================= the admission gate: claims ==================== *)

K == MAX_CONCURRENT_ARTICLES

\* Primary tasks holding a capacity permit.
Holders == {t \in Primaries : pc[t] \in {"waitCnt", "inc", "body", "fin", "dec"}}

\* Primary tasks counted by the active-primary counter.
Counted == {t \in Primaries : pc[t] \in {"body", "fin", "dec"}}

\* Secondary tasks holding the sequential image lock.
ImageLockHolders == {s \in Secondaries : pc[s] \in {"sbody", "sfin"}}

\* C1: no secondary task is inside its body while the active-primary count
\* is greater than zero.
C1_SecondaryExcludesPrimary ==
    \A s \in Secondaries : pc[s] = "sbody" => active_articles = 0

\* C2: at the step at which a secondary task enters its critical section
\* (gets the image lock) the active-primary count is zero.
C2_QuiescedAtEntry ==
    [][\A s \in Secondaries :
          (pc[s] # "sbody" /\ pc'[s] = "sbody") => active_articles = 0]_vars

\* C3: at most one secondary task is inside its body (holds the image lock)
\* at any time.
C3_SecondariesExclusive == Cardinality(ImageLockHolders) <= 1

\* C3 witness: one secondary in its body while another, past the barrier,
\* waits for the image lock.
C3_Witness ==
    \E s1, s2 \in Secondaries : pc[s1] = "sbody" /\ pc[s2] = "passed"

\* C4: a primary request issued while fewer than K primaries hold a permit is
\* admitted in the step that issues it, whatever the others do; one issued
\* while K hold a permit waits, and a waiting request is admitted only in a
\* state in which fewer than K hold one, that is after a release.
C4_CapacityAdmission ==
    [][\A t \in Primaries :
          /\ (pc[t] = "idle" /\ pc'[t] # "idle") =>
                IF Cardinality(Holders) < K
                THEN pc'[t] = "waitCnt"
                ELSE pc'[t] = "waitSem"
          /\ (pc[t] = "waitSem" /\ pc'[t] # "waitSem") =>
                (Cardinality(Holders) < K /\ pc'[t] = "waitCnt")
          /\ Cardinality(Holders') <= K]_vars

\* C4 witness: K primaries in their bodies at once and one more waiting.
C4_Witness ==
    /\ Cardinality({t \in Primaries : pc[t] = "body"}) = K
    /\ \E t \in Primaries : pc[t] = "waitSem"

\* C5: the active-primary counter stays within 0..K.
C5_CounterBounds == 0 <= active_articles /\ active_articles <= K

\* C5 witness: the counter at K after a primary has released by exception.
C5_Witness ==
    /\ active_articles = K
    /\ \E t \in Primaries : pc[t] = "idle" /\ exitKind[t] = "exc"

\* C6: outside a counter update the barrier reads "quiesced" exactly when the
\* active-primary count is zero, and a secondary blocked on the barrier is
\* released only by the step that brings the count to zero.
C6_BarrierTracksCount ==
    [][/\ ~active_articles_lock => (article_generating <=> active_articles = 0)
       /\ ~active_articles_lock' => (article_generating' <=> active_articles' = 0)
       /\ \A s \in Secondaries :
             (pc[s] = "blocked" /\ pc'[s] # "blocked") =>
                (active_articles > 0 /\ active_articles' = 0)]_vars

\* C6 witness: a primary has finished while another is still active, and a
\* secondary is still blocked on the barrier.
C6_Witness ==
    \E t1, t2 \in Primaries, s \in Secondaries :
        /\ pc[t1] = "idle" /\ exitKind[t1] # "none"
        /\ pc[t2] = "body"
        /\ pc[s] = "blocked"
        /\ ~active_articles_lock

\* C7: what a task took on entry it gives back on every exit, normal or by
\* exception: the counter counts exactly the primaries between increment and
\* decrement, the free permits are K minus the primaries holding one, the
\* image lock is held exactly while a secondary is between acquire and
\* release, and with every task out the gate is as it was constructed.
C7_ReleaseOnEveryExit ==
    /\ active_articles = Cardinality(Counted)
    /\ article_semaphore = K - Cardinality(Holders)
    /\ image_lock <=> ImageLockHolders # {}
    /\ (\A t \in tasks : pc[t] = "idle") =>
          /\ article_semaphore = K
          /\ active_articles = 0
          /\ article_generating
          /\ ~active_articles_lock
          /\ ~image_lock

\* C7 witness: every task is out again, a primary and a secondary of them by
\* an exception and another primary normally.
C7_Witness ==
    /\ \A t \in tasks : pc[t] = "idle"
    /\ \E t1, t2 \in Primaries, s \in Secondaries :
          exitKind[t1] = "exc" /\ exitKind[t2] = "ok" /\ exitKind[s] = "exc"

\* C8: under fair scheduling every secondary request eventually enters its
\* critical section.
C8_NoStarvation ==
    \A s \in LiveSecondaries :
        (pc[s] \in {"blocked", "passed"}) ~> (pc[s] = "sbody")

(* ======================== the embedder: claims ========================= *)

\* Results the embedder is given that are successful and carry a URL.
WithUrl(results) ==
    {i \in 1..Len(results) : results[i].success /\ results[i].url # ""}

\* C9: the number of image markers the embedder adds to the text equals the
\* number of results with success = true and a non-empty URL.
C9_EveryImageEmbedded ==
    stage = "done" =>
        MarkerCount(response.content) = Cardinality(WithUrl(image_results))

(* ======================== the pipeline: claims ========================= *)

\* C10: in every result the pipeline returns, the length of the metadata list
\* equals the number of image markers in the returned text.
C10_MetadataMatchesMarkers ==
    stage = "done" => Len(response.images) = MarkerCount(response.content)

\* Prompts whose image has been uploaded to the durable storage.
Uploaded(i) ==
    \/ jobs[i].at = "delete"
    \/ jobs[i].at = "done" /\ jobs[i].result.success

\* Prompts whose temporary file the pipeline has asked the backend to delete.
TemporaryDeleted(i) == jobs[i].at = "done" /\ jobs[i].result.success

\* C11: an image is uploaded to the durable storage, and its temporary file
\* deleted, only after the safety classifier has passed it: whenever the image
\* of a prompt is uploaded, its safety check has been made and answered
\* "safe"; an image judged unsafe is never uploaded.
C11_SafetyBeforeUpload ==
    \A i \in 1..Len(jobs) :
        (Uploaded(i) \/ TemporaryDeleted(i)) =>
            (i <= Len(verdicts) /\ verdicts[i] = "safe")

\* The lines of a text that are image markers with URL u.
MarkersOf(text, u) ==
    {k \in 1..Len(text) : text[k].kind = "img" /\ text[k].url = u}

\* The metadata records with URL u.
RecordsOf(images, u) == {k \in 1..Len(images) : images[k].url = u}

\* C12: for every prompt whose image gets an unsafe verdict, or whose safety
\* check fails, the result at the prompt's index becomes a failure record with
\* the classifier's message, the image's URL is neither in the returned text
\* nor in the returned metadata, and the other results are as the batch gave
\* them.
C12_UnsafeBecomesFailure ==
    \A i \in 1..Len(verdicts) :
        IF verdicts[i] \in {"unsafe", "error"}
        THEN /\ ~checked[i].success
             /\ checked[i].error = BlockedMessage(verdicts[i])
             /\ stage \in {"embed", "done"} => image_results[i] = checked[i]
             /\ stage = "done" =>
                   /\ MarkersOf(response.content, jobs[i].result.url) = {}
                   /\ RecordsOf(response.images, jobs[i].result.url) = {}
        ELSE /\ checked[i] = jobs[i].result
             /\ stage \in {"embed", "done"} => image_results[i] = jobs[i].result

\* C12 witness: two images, the first judged unsafe and the second safe, and
\* the call has returned with the second image in the text.
C12_Witness ==
    /\ stage = "done"
    /\ verdicts = <<"unsafe", "safe">>
    /\ MarkersOf(response.content, S3Url(2)) # {}

\* C13: the list the batch generator returns is as long as the prompt list and
\* its entry i is the outcome of prompt i, in whatever order the calls ended.
C13_ResultsInPromptOrder ==
    stage = "safety" =>
        /\ Len(image_results) = Len(prompts)
        /\ \A i \in 1..Len(prompts) : image_results[i] = jobs[i].result

\* C13 witness: the call of prompt 2 ended first, with a success, and the call
\* of prompt 1 after it, with a failure.
C13_Witness ==
    /\ stage = "safety"
    /\ completed = <<2, 1>>
    /\ ~image_results[1].success
    /\ image_results[2].success

\* C14: the failure of one prompt (generation error, missing download URL,
\* upload failure, exception in its call) gives a failure entry for that
\* prompt only: the batch goes on, nothing is returned to the caller, the
\* calls of the other prompts are where they were with the results they had,
\* and the batch ends only when every call has ended, with each call's result
\* at its index.
C14_FailureIsolated ==
    [][/\ \A i \in 1..Len(jobs) :
            (/\ stage = "batch"
             /\ jobs[i].at # "done"
             /\ jobs'[i].at = "done"
             /\ ~jobs'[i].result.success)
            => /\ stage' = "batch"
               /\ response' = response
               /\ \A j \in (1..Len(jobs)) \ {i} : jobs'[j] = jobs[j]
       /\ (stage = "batch" /\ stage' # "batch")
            => /\ \A j \in 1..Len(jobs) : jobs[j].at = "done"
               /\ \A j \in 1..Len(jobs) : image_results'[j] = jobs[j].result
               /\ stage' = "safety"]_vars

\* C14 witness: the call of prompt 1 ended first, by an exception, and the
\* call of prompt 2 went on to a success.
C14_Witness ==
    /\ stage = "safety"
    /\ completed = <<1, 2>>
    /\ image_results[1] = Failure("exception")
    /\ image_results[2].success

\* C15: every URL of a successful result, of a marker of the returned text and
\* of a returned metadata record is the public URL the storage gave for the
\* upload of the same prompt, never the temporary URL of the backend.
C15_OnlyStorageUrls ==
    /\ \A i \in 1..Len(jobs) :
          jobs[i].result.success => jobs[i].result.url = S3Url(i)
    /\ \A i \in 1..Len(image_results) :
          image_results[i].success =>
             image_results[i].url = S3Url(i) /\ Uploaded(i)
    /\ \A i \in 1..Len(checked) :
          checked[i].success => checked[i].url = S3Url(i) /\ Uploaded(i)
    /\ \A k \in 1..Len(response.content) :
          response.content[k].kind = "img" =>
             /\ response.content[k].url = S3Url(response.content[k].idx)
             /\ Uploaded(response.content[k].idx)
    /\ \A k \in 1..Len(response.images) :
          /\ response.images[k].url = S3Url(response.images[k].index)
          /\ Uploaded(response.images[k].index)

\* C15 witness: the call has returned two images, in the text and in the
\* metadata.
C15_Witness ==
    /\ stage = "done"
    /\ Len(response.images) = 2
    /\ MarkerCount(response.content) = 2

\* C16: when no prompt is extracted, or every prompt fails so that no image
\* is produced, the call returns success = false, a message, no images, and
\* the article text as it was given.
C16_NoImagesIsFailure ==
    (/\ stage = "done"
     /\ image_count > 0
     /\ \A i \in 1..Len(image_results) : ~image_results[i].success)
    => /\ response.success = FALSE
       /\ response.message # ""
       /\ response.images = <<>>
       /\ response.content = article_content

(* ==================== the embedder: claims (continued) ================= *)

\* A line the embedder added: an image marker or a separator line.
Added(l) == l.kind = "img" \/ l.idx = 0

\* C17: the embedder does not corrupt the text: the lines of the cleaned
\* article are in the output as they were and in their order, the lines added
\* are image markers, or blank separator lines in the block appended at the
\* very end, and the output without the added lines is the cleaned article.
C17_TextPreserved ==
    stage = "done" =>
        LET cleaned == CleanContent(article_content)
            out == response.content
        IN  /\ SelectSeq(out, LAMBDA l : ~Added(l)) = cleaned
            /\ \A k \in 1..Len(out) :
                  (Added(out[k]) /\ out[k].kind # "img") =>
                      /\ IsBlank(out[k])
                      /\ \A j \in k..Len(out) : Added(out[j])

\* C17 witness: two images spliced into an article, one of them between two
\* of its lines.
C17_Witness ==
    /\ stage = "done"
    /\ ~raised
    /\ MarkerCount(response.content) = 2
    /\ \E k \in 1..Len(response.content) :
          /\ response.content[k].kind = "img"
          /\ \E j \in (k + 1)..Len(response.content) : ~Added(response.content[j])

\* The '## ' headings of a text, by line number.
H2s(text) == {k \in 1..Len(text) : text[k].kind = "h2"}

\* The markers of a text made for prompt i.
MarkersFor(text, i) ==
    {k \in 1..Len(text) : text[k].kind = "img" /\ text[k].idx = i}

\* The marker at line m comes after the first paragraph under the heading at
\* line h: between them lie lines that are neither text nor '## ' headings,
\* then the lines of one paragraph, then blank lines; the paragraph does not
\* go on after the marker.
AfterFirstParagraph(text, h, m) ==
    /\ h < m
    /\ \E p \in (h + 1)..(m - 1) : \E q \in p..(m - 1) :
          /\ \A k \in (h + 1)..(p - 1) : text[k].kind \in {"blank", "h"}
          /\ \A k \in p..q : text[k].kind = "text"
          /\ \A k \in (q + 1)..(m - 1) : text[k].kind = "blank"
    /\ m < Len(text) => text[m + 1].kind # "text"

\* The heading at line h has a paragraph under it: a line of text before the
\* next '## ' heading.
HasParagraph(text, h) ==
    \E p \in (h + 1)..Len(text) :
        /\ text[p].kind = "text"
        /\ \A k \in (h + 1)..p : text[k].kind # "h2"

\* C18: for an article with exactly two '## ' headings, each with a paragraph
\* under it, and two successful images, the output has exactly two markers,
\* the image of prompt 1 after the first paragraph of the first heading and
\* the image of prompt 2 after the first paragraph of the second.
C18_OneImagePerHeading ==
    (/\ stage = "done"
     /\ ~raised
     /\ Cardinality(H2s(CleanContent(article_content))) = 2
     /\ \A h \in H2s(CleanContent(article_content)) :
           HasParagraph(CleanContent(article_content), h)
     /\ Cardinality(WithUrl(image_results)) = 2)
    => LET out == response.content
           h1 == CHOOSE k \in H2s(out) : \A j \in H2s(out) : k <= j
           h2 == CHOOSE k \in H2s(out) : \A j \in H2s(out) : k >= j
       IN  /\ MarkerCount(out) = 2
           /\ \E m \in MarkersFor(out, 1) : AfterFirstParagraph(out, h1, m)
           /\ \E m \in MarkersFor(out, 2) : AfterFirstParagraph(out, h2, m)

\* C19: for an article without headings and without paragraph breaks and one
\* successful image the output has exactly one marker; and whenever a
\* successful image with a URL is given the output has at least one marker.
C19_NeverZeroMarkers ==
    stage = "done" =>
        /\ WithUrl(image_results) # {} => MarkerCount(response.content) >= 1
        /\ (/\ \A k \in 1..Len(article_content) : article_content[k].kind = "text"
            /\ Cardinality(WithUrl(image_results)) = 1)
           => MarkerCount(response.content) = 1

\* C19 witness: an article of one line of text, one successful image, and the
\* splicing code has not raised.
C19_Witness ==
    /\ stage = "done"
    /\ ~raised
    /\ Len(article_content) = 1
    /\ article_content[1].kind = "text"
    /\ Cardinality(WithUrl(image_results)) = 1
    /\ MarkerCount(response.content) = 1

\* C20: if the splicing code raises, the embedder does not: it returns the
\* cleaned text followed by every successful image, in prompt order, each
\* after a blank separator line.
C20_FallbackOnException ==
    (stage = "done" /\ raised) =>
        LET cleaned == CleanContent(article_content)
            out == response.content
            ok == WithUrl(image_results)
            n == Cardinality(ok)
            Nth(j) == CHOOSE i \in ok : Cardinality({x \in ok : x < i}) = j - 1
        IN  /\ response.success
            /\ Len(out) = Len(cleaned) + 2 * n
            /\ SubSeq(out, 1, Len(cleaned)) = cleaned
            /\ \A j \in 1..n :
                  /\ out[Len(cleaned) + 2 * j - 1] = TextLine("blank")
                  /\ out[Len(cleaned) + 2 * j] =
                        ImageLine(prompts[Nth(j)], image_results[Nth(j)].url)

\* C20 witness: the splicing code raised with two images to embed in an
\* article of several lines.
C20_Witness ==
    /\ stage = "done"
    /\ raised
    /\ Len(article_content) >= 2
    /\ MarkerCount(response.content) = 2

\* C21: in the returned text the images stand in the order of their prompts
\* (the image of prompt i before the image of prompt j whenever i < j and both
\* are in the text), and the metadata records are in prompt order, each with
\* the prompt and the URL of the result at its index.
C21_ImagesInPromptOrder ==
    stage = "done" =>
        LET out == response.content
            meta == response.images
        IN  /\ \A k1, k2 \in 1..Len(out) :
                  (/\ out[k1].kind = "img"
                   /\ out[k2].kind = "img"
                   /\ out[k1].idx < out[k2].idx) => k1 < k2
            /\ \A k \in 1..Len(out) :
                  out[k].kind = "img" =>
                      out[k].url = image_results[out[k].idx].url
            /\ \A k1, k2 \in 1..Len(meta) :
                  k1 < k2 => meta[k1].index < meta[k2].index
            /\ \A k \in 1..Len(meta) :
                  /\ meta[k].prompt = prompts[meta[k].index]
                  /\ meta[k].url = image_results[meta[k].index].url
                  /\ image_results[meta[k].index].success

\* C21 witness: two images spliced into the text at different places, with
\* lines of the article between them.
C21_Witness ==
    /\ stage = "done"
    /\ ~raised
    /\ Len(response.images) = 2
    /\ \E k1, k2 \in 1..Len(response.content) :
          /\ k1 + 1 < k2
          /\ response.content[k1].kind = "img"
          /\ response.content[k2].kind = "img"

(* ===================== the prompt extractor: claims ==================== *)

\* The least length of a prompt collected by a pass.
LeastOf(pass) ==
    CASE pass = 1 -> MIN_LINE_PROMPT
      [] pass = 2 -> MIN_SEGMENT_PROMPT
      [] pass = 3 -> MIN_SENTENCE_PROMPT

\* C22: for every answer of the oracle and every count N asked for, the
\* extractor calls the oracle once and returns at most N prompts; the passes
\* run in their order (lines, paragraphs, sentences), a later pass only when
\* fewer than N prompts are collected, what a later pass finds comes after
\* what was collected, and every prompt has the least length of its pass.
C22_ExtractorPasses ==
    ext_stage = "returned" =>
        /\ oracle_calls = 1
        /\ Len(ext_prompts) <= requested
        /\ Len(passes_run) <= 3
        /\ \A k \in 1..Len(passes_run) :
              /\ passes_run[k].pass = k
              /\ k > 1 => passes_run[k].before < requested
        /\ Len(prompt_pass) = Len(ext_prompts)
        /\ \A i \in 1..Len(ext_prompts) :
              /\ Chars(ext_prompts[i]) >= LeastOf(prompt_pass[i])
              /\ \A j \in 1..(i - 1) : prompt_pass[j] <= prompt_pass[i]

\* C22 witness: two prompts asked for, the first found by the line-based pass
\* and the second by the sentence-based pass only.
C22_Witness ==
    /\ ext_stage = "returned"
    /\ requested = 2
    /\ prompt_pass = <<1, 3>>
    /\ Len(passes_run) = 3

\* The lines of the answer.
AnswerLinesOf(answer) == SplitAt(answer, "\n", <<>>)

\* The description of a line: its words.
DescriptionOf(line) == SelectSeq(line, LAMBDA t : t.c = "w")

\* The line is a numbering, a bullet or a label and then a description (in
\* quotes or not) of at least 15 characters.
IsPrefixed(line) ==
    \E pre \in Prefixes, quoted \in BOOLEAN :
        /\ Len(DescriptionOf(line)) = 1
        /\ Chars(DescriptionOf(line)) >= MIN_LINE_PROMPT
        /\ line = Described(pre, quoted, DescriptionOf(line)[1])

\* C23: for an answer of N lines, each a numbering, bullet or 'Prompt k:'
\* prefix and a description of at least 15 characters, the extractor asked
\* for N prompts returns the N descriptions in line order, without prefixes
\* and quotes; and no prompt it returns is a code-fence line.
C23_PrefixesStripped ==
    ext_stage = "returned" /\ passes_run # <<>> =>
        LET lines == AnswerLinesOf(oracle_answer)
        IN  /\ (/\ Len(lines) = requested
                /\ \A i \in 1..Len(lines) : IsPrefixed(lines[i]))
               => ext_prompts = [i \in 1..Len(lines) |-> DescriptionOf(lines[i])]
            /\ \A i \in 1..Len(ext_prompts) :
                  \E k \in 1..Len(ext_prompts[i]) : ext_prompts[i][k].c # "f"

\* C23 witness: an answer of a numbered line and a label line with its
\* description in quotes, two prompts asked for and returned.
C23_Witness ==
    /\ ext_stage = "returned"
    /\ requested = 2
    /\ oracle_answer = JoinLines(<<Described(Numbering, FALSE, Word(15, 1)),
                                   Described(PromptLabel, TRUE, Word(15, 2))>>)
    /\ ext_prompts = <<<<Word(15, 1)>>, <<Word(15, 2)>>>>

(* =============== the gate and the image backend: claims ================ *)

\* Tasks with an image generation under way on the shared backend: a
\* secondary inside its critical section (the article-image pipeline runs
\* there) and a request of the media page waiting for the backend.
GeneratingImages ==
    {t \in tasks : pc[t] \in {"sbody", "calling"}}

\* C24: every image generation on the shared backend, of the article-image
\* pipeline and of the media page, waits for the article generations to end:
\* none is under way while the active-primary count is greater than zero.
C24_ImagesWaitForArticles ==
    GeneratingImages # {} => active_articles = 0

(* ================ the embedder: the heading strategy =================== *)

\* The first line after line i (the code's numbering, from 0) that is content
\* and no heading; Len(lines) if there is none.
FirstContentAfter(lines, i) ==
    LET js == {j \in (i + 1)..(Len(lines) - 1) : IsBody(At(lines, j))}
    IN  IF js = {} THEN Len(lines) ELSE CHOOSE j \in js : \A k \in js : j <= k

\* The ends of the paragraph that follows the heading at line i: the first
\* blank line after the first content under the heading, or the end of the
\* document; with no content under the heading, any place after it.
ParagraphEndAfter(lines, i) ==
    LET c == FirstContentAfter(lines, i)
        bs == {j \in (c + 1)..(Len(lines) - 1) : IsBlank(At(lines, j))}
    IN  IF c = Len(lines) THEN (i + 1)..Len(lines)
        ELSE IF bs = {} THEN {Len(lines)}
        ELSE {CHOOSE j \in bs : \A k \in bs : j <= k}

\* C25: every candidate of the heading strategy is the end of the paragraph
\* that follows a '## ' heading (the first blank line after the first content
\* under the heading, or the end of the document); the strategy records no
\* candidate twice, at most one for each heading and no more than there are
\* successful images.
C25_HeadingCandidates ==
    stage = "done" =>
        LET lines == CleanContent(article_content)
            n == Len(SuccessfulImages(prompts, image_results, 1))
            pts == HeadingPoints(lines, n, 0, <<>>)
            hs == {i \in 0..(Len(lines) - 1) : IsH2(At(lines, i))}
        IN  n > 0 =>
              /\ \A k \in 1..Len(pts) :
                    \E h \in hs : pts[k] \in ParagraphEndAfter(lines, h)
              /\ \A k1, k2 \in 1..Len(pts) : k1 # k2 => pts[k1] # pts[k2]
              /\ Len(pts) <= Cardinality(hs)
              /\ Len(pts) <= n

(* ===================== the pipeline: claims (continued) ================ *)

\* C26: for each prompt the deletion of the temporary file is attempted only
\* after the upload of its image has succeeded, and a deletion that fails
\* does not change the result: it is success = true with the storage URL.
C26_CleanupBestEffort ==
    /\ \A i \in 1..Len(jobs) :
          /\ jobs[i].at = "delete" => jobs[i].uploaded
          /\ jobs[i].cleanup # "none" =>
                /\ jobs[i].uploaded
                /\ jobs[i].at = "done"
                /\ jobs[i].result = Success(S3Url(i))
    /\ (stage = "safety" /\ checked = <<>>) =>
          \A i \in 1..Len(jobs) :
              jobs[i].cleanup # "none" => image_results[i] = Success(S3Url(i))

\* C26 witness: the batch has returned, the deletion of the temporary file of
\* prompt 1 failed and that of prompt 2 went through.
C26_Witness ==
    /\ stage = "safety"
    /\ Len(jobs) = 2
    /\ jobs[1].cleanup = "failed"
    /\ jobs[2].cleanup = "deleted"
    /\ image_results[1] = Success(S3Url(1))

\* C27: for every image_count asked for, a run of the pipeline starts at most
\* min(max(image_count, 0), 2) image generations and returns at most 2
\* metadata records; for image_count <= 0 it calls neither the oracle nor the
\* generation, the safety check or the storage, and returns success = true, the
\* content as given and no images.
C27_CountCapped ==
    /\ Len(jobs) <= Min(Max(image_count, 0), MAX_IMAGES)
    /\ Len(response.images) <= MAX_IMAGES
    /\ image_count <= 0 =>
          /\ oracle_calls = 0
          /\ jobs = <<>>
          /\ verdicts = <<>>
          /\ stage = "done" =>
                /\ response.success
                /\ response.content = article_content
                /\ response.images = <<>>

\* C27 witness: more images asked for than the ceiling; two generations were
\* started and two metadata records are returned.
C27_Witness ==
    /\ stage = "done"
    /\ image_count > MAX_IMAGES
    /\ Len(jobs) = MAX_IMAGES
    /\ Len(response.images) = MAX_IMAGES

(* ================= the admission gate: claims (continued) ============== *)

\* C28: the gate does not deadlock: under fair scheduling, with every body
\* ending, every primary request is admitted (a task waiting for a permit or
\* updating the counter reaches its body) and every release completes (a task
\* that has left its body gets out of the gate).
C28_NoDeadlock ==
    \A t \in LivePrimaries :
        /\ (pc[t] \in {"waitSem", "waitCnt", "inc"}) ~> (pc[t] = "body")
        /\ (pc[t] \in {"fin", "dec"}) ~> (pc[t] = "idle")

\* C28 witness: the last active primary is releasing (its decrement opens the
\* barrier) while the other primaries hold or wait for the permits and a
\* secondary is queued on the barrier.
C28_Witness ==
    \E t \in Primaries :
        /\ pc[t] = "dec"
        /\ active_articles = 1
        /\ \E s \in Secondaries : pc[s] = "blocked"

\* C29: the active-primary count never exceeds the permits that are held
\* (K minus the free permits), and whenever no primary is between its acquire
\* and its release the gate is as constructed: K free permits, a count of
\* zero and the barrier set.
C29_CountWithinHeldPermits ==
    /\ active_articles <= K - article_semaphore
    /\ Holders = {} =>
          /\ article_semaphore = K
          /\ active_articles = 0
          /\ article_generating

\* C29 witness: a primary holds a permit it has not yet been counted for,
\* after another has gone through the gate and a secondary has run.
C29_Witness ==
    /\ \E t \in Primaries : pc[t] = "waitCnt"
    /\ active_articles < K - article_semaphore
    /\ \E t \in Primaries : pc[t] = "idle" /\ exitKind[t] # "none"
    /\ \E s \in Secondaries : pc[s] = "idle" /\ exitKind[s] # "none"

(* ================= the single-article endpoints: claims ================ *)

\* C30: when the run inside the primary slot raises, the slot is released
\* before the endpoint does anything else and the generation is run again
\* once, under a slot acquired anew: a request holds at most one slot (the
\* permits taken are those of the requests inside the gate), starts at most
\* two runs, is in its `except` block only with its slot released and one
\* run started, and is answered with an error only after a second run that
\* failed, with no slot held.
C30_RetryOnceUnderNewSlot ==
    /\ K - article_semaphore = Cardinality(Holders)
    /\ \A t \in Primaries :
          /\ runs[t] <= 2
          /\ handler[t] = "none" => runs[t] = 0 /\ pc[t] = "idle"
          /\ handler[t] = "try" => runs[t] = (IF t \in Counted THEN 1 ELSE 0)
          /\ handler[t] = "except" =>
                runs[t] = 1 /\ pc[t] = "idle" /\ exitKind[t] = "exc"
          /\ handler[t] = "retry" => runs[t] = (IF t \in Counted THEN 2 ELSE 1)
          /\ handler[t] = "done" =>
                /\ pc[t] = "idle"
                /\ \/ http[t] = "ok" /\ exitKind[t] = "ok" /\ runs[t] \in {1, 2}
                   \/ http[t] = "error" /\ exitKind[t] = "exc" /\ runs[t] = 2
          /\ http[t] # "none" => handler[t] = "done"

\* C30 witness: one request answered with an error after its second run
\* failed, another answered after a second run that succeeded, with all the
\* permits back.
C30_Witness ==
    /\ \E t, u \in Primaries :
          /\ http[t] = "error" /\ runs[t] = 2
          /\ http[u] = "ok" /\ runs[u] = 2
    /\ article_semaphore = K

====
